---- MODULE Spec2Model ----
(***************************************************************************)
(* LRUMemoryManager (src/src/lrumemorymanager.cpp): a fixed pool carved    *)
(* into hunks that sit on two intrusive circular lists, one in address     *)
(* order (prev_ptr/next_ptr) and one in recency order (least_recent_ptr/   *)
(* most_recent_ptr), both closed by the head hunk at the pool base.        *)
(*                                                                         *)
(* Pointers into the pool are modelled as byte offsets from the pool base; *)
(* a handle is a small integer naming one caller-owned LRUMemoryHandle.    *)
(* size_t and pointer values live in a machine word of WordBits bits.      *)
(***************************************************************************)
EXTENDS Integers, Sequences, FiniteSets

\* ------------------------------------------------------------ bounds

\* Number of caller-owned LRUMemoryHandle objects.
NumHandles == 3

\* The pool holds the head hunk plus PoolUnits alignment units.
PoolUnits == 13

\* Width of size_t and of a pointer, scaled down from 64.
WordBits == 12

\* ------------------------------------------------- program constants

MEMORY_ALIGNMENT == 16

ALIGNMENT_MASK == MEMORY_ALIGNMENT - 1

\* sizeof(LRUMemoryHunk): size_t + handle pointer + four hunk pointers.
HeaderSize == 48

nullptr == -1

Word == 2 ^ WordBits

\* Address std::malloc returned for the pool (16-byte aligned, low in the
\* address space).
ArenaBase == 256

PoolSize == HeaderSize + PoolUnits * MEMORY_ALIGNMENT

Handles == 1 .. NumHandles

\* Offset of the head hunk (get_head_hunk() is the pool base).
head == 0

VARIABLES
    mem_total_size_,      \* total size of the pool
    mem_allocated_size_,  \* currently allocated size
    hunks,                \* offset -> LRUMemoryHunk, for every constructed hunk
    hunk_ptr_,            \* handle -> offset of its hunk, or nullptr
    ptr_wrap,             \* the build: out-of-range pointer sums wrap (TRUE)
                          \* or compare as unbounded integers (FALSE)
    aborted,              \* the process died (Expects failure, crash)
    unpoisoned,           \* the byte ranges AddressSanitizer holds valid
    last                  \* the last public call and what it returned

vars == <<mem_total_size_, mem_allocated_size_, hunks, hunk_ptr_, ptr_wrap, aborted, unpoisoned, last>>

\* ------------------------------------------------- word arithmetic

\* size_t addition and subtraction.
SizeAdd(a, b) == (a + b) % Word

SizeSub(a, b) == (a - b + Word) % Word

\* x & ~ALIGNMENT_MASK
AlignDown(x) == x - (x % MEMORY_ALIGNMENT)

\* real_alloc: (size + sizeof(LRUMemoryHunk) + ALIGNMENT_MASK) & ~ALIGNMENT_MASK
aligned_size(size) == AlignDown((size + HeaderSize + ALIGNMENT_MASK) % Word)

\* pointer + n, as an offset from the pool base. Past the end of the address
\* space the sum is undefined: the build either wraps it or keeps it exact.
PtrAdd(wrap, off, n) == IF wrap THEN (off + n) % Word ELSE off + n

\* a >= b on pointers given as offsets.
PtrGE(wrap, a, b) ==
    IF wrap THEN (ArenaBase + a) % Word >= (ArenaBase + b) % Word ELSE a >= b

\* ------------------------------------------------------ manager state

\* The bytes AddressSanitizer holds valid (not poisoned) are kept as a set
\* of ranges <<first, end>> of offsets from the pool base, end excluded.

\* ASAN_POISON_MEMORY_REGION(addr, size): the bytes of [addr, addr + size)
\* become invalid; of every valid range what lies below and what lies
\* above the region is left.
ASAN_POISON_MEMORY_REGION(V, addr, size) ==
    { <<r[1], IF r[2] < addr THEN r[2] ELSE addr>> : r \in { x \in V : x[1] < addr } }
      \cup { <<IF r[1] > addr + size THEN r[1] ELSE addr + size, r[2]>> :
                r \in { x \in V : x[2] > addr + size } }

\* ASAN_UNPOISON_MEMORY_REGION(addr, size): the bytes of [addr, addr + size)
\* become valid.
ASAN_UNPOISON_MEMORY_REGION(V, addr, size) ==
    IF size = 0 THEN V ELSE V \cup { <<addr, addr + size>> }

\* The manager and the handles as one value, threaded through the private
\* methods. evicted records the handles real_alloc released, in order.
State ==
    [ total    |-> mem_total_size_,
      alloc    |-> mem_allocated_size_,
      hunks    |-> hunks,
      hptr     |-> hunk_ptr_,
      wrap     |-> ptr_wrap,
      aborted  |-> aborted,
      valid    |-> unpoisoned,
      evicted  |-> <<>> ]

\* A default-constructed LRUMemoryHunk.
NewHunk ==
    [ size |-> 0, handler_ptr |-> nullptr,
      prev_ptr |-> nullptr, next_ptr |-> nullptr,
      least_recent_ptr |-> nullptr, most_recent_ptr |-> nullptr ]

\* LRUMemoryManager::LRUMemoryManager
Constructor(mem_pool_size) ==
    [ total    |-> mem_pool_size,
      alloc    |-> HeaderSize,
      hunks    |-> [ o \in {head} |->
                       [ size |-> HeaderSize, handler_ptr |-> nullptr,
                         prev_ptr |-> head, next_ptr |-> head,
                         least_recent_ptr |-> head, most_recent_ptr |-> head ] ],
      hptr     |-> [ h \in Handles |-> nullptr ],
      valid    |-> ASAN_POISON_MEMORY_REGION({ <<head, mem_pool_size>> }, HeaderSize,
                                             SizeSub(mem_pool_size, HeaderSize)) ]

\* Expects(cond): the process aborts when cond is false.
Abort(S) == [S EXCEPT !.aborted = TRUE]

\* ------------------------------------------------------ recency list

\* Mutant of unlink_lru: only the older neighbour is relinked, the newer
\* neighbour keeps pointing at the removed hunk.
unlink_lru_oneway(S, p) ==
    IF p = nullptr THEN Abort(S)
    ELSE IF S.hunks[p].most_recent_ptr = nullptr \/ S.hunks[p].least_recent_ptr = nullptr
    THEN Abort(S)
    ELSE
    LET mr == S.hunks[p].most_recent_ptr
        lr == S.hunks[p].least_recent_ptr
        H1 == [S.hunks EXCEPT ![mr].least_recent_ptr = lr]
        H3 == [H1 EXCEPT ![p].least_recent_ptr = nullptr, ![p].most_recent_ptr = nullptr]
    IN [S EXCEPT !.hunks = H3]

\* LRUMemoryManager::unlink_lru
unlink_lru(S, p) ==
    IF p = nullptr THEN Abort(S)
    ELSE IF S.hunks[p].most_recent_ptr = nullptr \/ S.hunks[p].least_recent_ptr = nullptr
    THEN Abort(S)
    ELSE
    LET mr == S.hunks[p].most_recent_ptr
        lr == S.hunks[p].least_recent_ptr
        H1 == [S.hunks EXCEPT ![mr].least_recent_ptr = lr]
        H2 == [H1 EXCEPT ![lr].most_recent_ptr = mr]
        H3 == [H2 EXCEPT ![p].least_recent_ptr = nullptr, ![p].most_recent_ptr = nullptr]
    IN [S EXCEPT !.hunks = H3]

\* Mutant of link_lru: the hunk is linked at the least recent end.
link_lru_tail(S, p) ==
    IF p = nullptr THEN Abort(S)
    ELSE IF S.hunks[p].most_recent_ptr # nullptr \/ S.hunks[p].least_recent_ptr # nullptr
    THEN Abort(S)
    ELSE
    LET H1 == [S.hunks EXCEPT ![S.hunks[head].least_recent_ptr].most_recent_ptr = p]
        H2 == [H1 EXCEPT ![p].least_recent_ptr = H1[head].least_recent_ptr]
        H3 == [H2 EXCEPT ![p].most_recent_ptr = head]
        H4 == [H3 EXCEPT ![head].least_recent_ptr = p]
    IN [S EXCEPT !.hunks = H4]

\* LRUMemoryManager::link_lru
link_lru(S, p) ==
    IF p = nullptr THEN Abort(S)
    ELSE IF S.hunks[p].most_recent_ptr # nullptr \/ S.hunks[p].least_recent_ptr # nullptr
    THEN Abort(S)
    ELSE
    LET H1 == [S.hunks EXCEPT ![S.hunks[head].most_recent_ptr].least_recent_ptr = p]
        H2 == [H1 EXCEPT ![p].most_recent_ptr = H1[head].most_recent_ptr]
        H3 == [H2 EXCEPT ![p].least_recent_ptr = head]
        H4 == [H3 EXCEPT ![head].most_recent_ptr = p]
    IN [S EXCEPT !.hunks = H4]

\* --------------------------------------------------------- placement

\* Mutant of PlaceHunk: only the payload is accounted, not the header.
PlaceHunk_payloadonly(S, at, size, next_hunk_ptr) ==
    LET prev == S.hunks[next_hunk_ptr].prev_ptr
        H0 == [ o \in DOMAIN S.hunks \cup {at} |->
                  IF o = at THEN [NewHunk EXCEPT !.size = size] ELSE S.hunks[o] ]
        H1 == [H0 EXCEPT ![at].next_ptr = next_hunk_ptr, ![at].prev_ptr = prev]
        H2 == [H1 EXCEPT ![prev].next_ptr = at]
        H3 == [H2 EXCEPT ![next_hunk_ptr].prev_ptr = at]
        S1 == link_lru([S EXCEPT !.hunks = H3], at)
    IN [S1 EXCEPT !.alloc = SizeAdd(S1.alloc, SizeSub(size, HeaderSize)),
                  !.valid = ASAN_UNPOISON_MEMORY_REGION(S.valid, at, size)]

\* Mutant of PlaceHunk: the new hunk is always inserted at the end of the
\* allocation list, whatever gap it was constructed in.
PlaceHunk_append(S, at, size, next_hunk_ptr) ==
    LET prev == S.hunks[head].prev_ptr
        H0 == [ o \in DOMAIN S.hunks \cup {at} |->
                  IF o = at THEN [NewHunk EXCEPT !.size = size] ELSE S.hunks[o] ]
        H1 == [H0 EXCEPT ![at].next_ptr = head, ![at].prev_ptr = prev]
        H2 == [H1 EXCEPT ![prev].next_ptr = at]
        H3 == [H2 EXCEPT ![head].prev_ptr = at]
        S1 == link_lru([S EXCEPT !.hunks = H3], at)
    IN [S1 EXCEPT !.alloc = SizeAdd(S1.alloc, size),
                  !.valid = ASAN_UNPOISON_MEMORY_REGION(S.valid, at, size)]

\* try_alloc, "Free space found, allocate new hunk here": construct a hunk of
\* `size` bytes at offset `at`, insert it before `next_hunk_ptr` in the
\* allocation list, put it on top of the LRU list and account for it.
PlaceHunk(S, at, size, next_hunk_ptr) ==
    LET prev == S.hunks[next_hunk_ptr].prev_ptr
        H0 == [ o \in DOMAIN S.hunks \cup {at} |->
                  IF o = at THEN [NewHunk EXCEPT !.size = size] ELSE S.hunks[o] ]
        H1 == [H0 EXCEPT ![at].next_ptr = next_hunk_ptr, ![at].prev_ptr = prev]
        H2 == [H1 EXCEPT ![prev].next_ptr = at]
        H3 == [H2 EXCEPT ![next_hunk_ptr].prev_ptr = at]
        S1 == link_lru([S EXCEPT !.hunks = H3], at)
    IN [S1 EXCEPT !.alloc = SizeAdd(S1.alloc, size),
                  !.valid = ASAN_UNPOISON_MEMORY_REGION(S.valid, at, size)]

\* Mutant of GapFits: the size of the request is left out of the comparison.
GapFits_nosize(S, current_end, next_start, size) ==
    PtrGE(S.wrap, next_start, current_end)

\* Mutant of GapFits: a gap of exactly the requested size is rejected.
GapFits_strict(S, current_end, next_start, size) ==
    /\ PtrGE(S.wrap, next_start, PtrAdd(S.wrap, current_end, size))
    /\ next_start # PtrAdd(S.wrap, current_end, size)

\* try_alloc: next_start >= current_end + size
GapFits(S, current_end, next_start, size) ==
    PtrGE(S.wrap, next_start, PtrAdd(S.wrap, current_end, size))

\* Mutant of try_alloc_tail: the tail check ignores the size of the request.
try_alloc_tail_nosize(S, size) ==
    LET pool_end == PtrAdd(S.wrap, head, S.total)
        lastp == S.hunks[head].prev_ptr
        last_hunk_end == PtrAdd(S.wrap, lastp, S.hunks[lastp].size)
    IN IF PtrGE(S.wrap, pool_end, last_hunk_end)
       THEN [hunk |-> last_hunk_end, st |-> PlaceHunk(S, last_hunk_end, size, head)]
       ELSE [hunk |-> nullptr, st |-> S]

\* try_alloc, "Try to allocate at the end of the memory pool".
try_alloc_tail(S, size) ==
    LET pool_end == PtrAdd(S.wrap, head, S.total)
        lastp == S.hunks[head].prev_ptr
        last_hunk_end == PtrAdd(S.wrap, lastp, S.hunks[lastp].size)
    IN IF GapFits(S, last_hunk_end, pool_end, size)
       THEN [hunk |-> last_hunk_end, st |-> PlaceHunk(S, last_hunk_end, size, head)]
       ELSE [hunk |-> nullptr, st |-> S]

\* try_alloc, the do-while over adjacent hunks (current, next) from the head.
RECURSIVE try_alloc_scan(_, _, _, _, _)
try_alloc_scan(S, current_hunk_ptr, next_hunk_ptr, size, fuel) ==
    LET current_end == PtrAdd(S.wrap, current_hunk_ptr, S.hunks[current_hunk_ptr].size)
        after == S.hunks[next_hunk_ptr].next_ptr
    IN IF GapFits(S, current_end, next_hunk_ptr, size)
       THEN [hunk |-> current_end, st |-> PlaceHunk(S, current_end, size, next_hunk_ptr)]
       ELSE IF after = head THEN try_alloc_tail(S, size)
       ELSE IF fuel = 0 THEN [hunk |-> nullptr, st |-> Abort(S)]
       ELSE try_alloc_scan(S, next_hunk_ptr, after, size, fuel - 1)

\* Mutant of try_alloc: the tail of the pool is tried before the gaps.
try_alloc_tailfirst(S, size) ==
    LET t == try_alloc_tail(S, size)
    IN IF t.hunk # nullptr THEN t
       ELSE try_alloc_scan(S, head, S.hunks[head].next_ptr, size, Cardinality(DOMAIN S.hunks))

\* LRUMemoryManager::try_alloc
try_alloc(S, size) ==
    try_alloc_scan(S, head, S.hunks[head].next_ptr, size, Cardinality(DOMAIN S.hunks))

\* ----------------------------------------------------------- release

\* Mutant of real_free: the allocated byte count is not lowered.
real_free_noacct(S, handle_ptr) ==
    IF handle_ptr = nullptr THEN Abort(S)
    ELSE IF S.hptr[handle_ptr] = nullptr THEN Abort(S)
    ELSE
    LET p == S.hptr[handle_ptr]
        prev == S.hunks[p].prev_ptr
        next == S.hunks[p].next_ptr
        H1 == [S.hunks EXCEPT ![prev].next_ptr = next]
        H2 == [H1 EXCEPT ![next].prev_ptr = prev]
        H3 == [H2 EXCEPT ![p].next_ptr = nullptr, ![p].prev_ptr = nullptr]
        S2 == unlink_lru([S EXCEPT !.hunks = [H3 EXCEPT ![p].size = 0]], p)
    IN IF S2.aborted THEN S2
       ELSE [S2 EXCEPT !.hunks = [ o \in DOMAIN S2.hunks \ {p} |-> S2.hunks[o] ],
                       !.hptr = [S2.hptr EXCEPT ![handle_ptr] = nullptr],
                       !.valid = ASAN_POISON_MEMORY_REGION(S.valid, p, S.hunks[p].size)]

\* Mutant of real_free: the handle keeps its pointer to the released hunk.
real_free_nounbind(S, handle_ptr) ==
    IF handle_ptr = nullptr THEN Abort(S)
    ELSE IF S.hptr[handle_ptr] = nullptr THEN Abort(S)
    ELSE
    LET p == S.hptr[handle_ptr]
        prev == S.hunks[p].prev_ptr
        next == S.hunks[p].next_ptr
        H1 == [S.hunks EXCEPT ![prev].next_ptr = next]
        H2 == [H1 EXCEPT ![next].prev_ptr = prev]
        H3 == [H2 EXCEPT ![p].next_ptr = nullptr, ![p].prev_ptr = nullptr]
        S1 == [S EXCEPT !.hunks = [H3 EXCEPT ![p].size = 0],
                        !.alloc = SizeSub(S.alloc, H3[p].size)]
        S2 == unlink_lru(S1, p)
    IN IF S2.aborted THEN S2
       ELSE [S2 EXCEPT !.hunks = [ o \in DOMAIN S2.hunks \ {p} |-> S2.hunks[o] ],
                       !.valid = ASAN_POISON_MEMORY_REGION(S.valid, p, S.hunks[p].size)]

\* Mutant of real_free: the hunk is left on the LRU list.
real_free_keeplru(S, handle_ptr) ==
    IF handle_ptr = nullptr THEN Abort(S)
    ELSE IF S.hptr[handle_ptr] = nullptr THEN Abort(S)
    ELSE
    LET p == S.hptr[handle_ptr]
        prev == S.hunks[p].prev_ptr
        next == S.hunks[p].next_ptr
        H1 == [S.hunks EXCEPT ![prev].next_ptr = next]
        H2 == [H1 EXCEPT ![next].prev_ptr = prev]
        H3 == [H2 EXCEPT ![p].next_ptr = nullptr, ![p].prev_ptr = nullptr]
        S1 == [S EXCEPT !.hunks = [H3 EXCEPT ![p].size = 0],
                        !.alloc = SizeSub(S.alloc, H3[p].size)]
    IN [S1 EXCEPT !.hunks = [ o \in DOMAIN S1.hunks \ {p} |-> S1.hunks[o] ],
                  !.hptr = [S1.hptr EXCEPT ![handle_ptr] = nullptr],
                  !.valid = ASAN_POISON_MEMORY_REGION(S.valid, p, S.hunks[p].size)]

\* Mutant of real_free: only the payload is taken off the allocated count.
real_free_payloadonly(S, handle_ptr) ==
    IF handle_ptr = nullptr THEN Abort(S)
    ELSE IF S.hptr[handle_ptr] = nullptr THEN Abort(S)
    ELSE
    LET p == S.hptr[handle_ptr]
        prev == S.hunks[p].prev_ptr
        next == S.hunks[p].next_ptr
        H1 == [S.hunks EXCEPT ![prev].next_ptr = next]
        H2 == [H1 EXCEPT ![next].prev_ptr = prev]
        H3 == [H2 EXCEPT ![p].next_ptr = nullptr, ![p].prev_ptr = nullptr]
        S1 == [S EXCEPT !.hunks = [H3 EXCEPT ![p].size = 0],
                        !.alloc = SizeSub(S.alloc, SizeSub(H3[p].size, HeaderSize))]
        S2 == unlink_lru(S1, p)
    IN IF S2.aborted THEN S2
       ELSE [S2 EXCEPT !.hunks = [ o \in DOMAIN S2.hunks \ {p} |-> S2.hunks[o] ],
                       !.hptr = [S2.hptr EXCEPT ![handle_ptr] = nullptr],
                       !.valid = ASAN_POISON_MEMORY_REGION(S.valid, p, S.hunks[p].size)]

\* Mutant of real_free: the handle is unbound but the hunk stays on both
\* lists.
real_free_handleonly(S, handle_ptr) ==
    IF handle_ptr = nullptr THEN Abort(S)
    ELSE IF S.hptr[handle_ptr] = nullptr THEN Abort(S)
    ELSE [S EXCEPT !.hptr = [S.hptr EXCEPT ![handle_ptr] = nullptr]]

\* Mutant of real_free: the hunk leaves the recency list and its handle is
\* unbound, but it stays on the address list with its size, so that its
\* bytes still count as taken when free space is searched.
real_free_keepaddr(S, handle_ptr) ==
    IF handle_ptr = nullptr THEN Abort(S)
    ELSE IF S.hptr[handle_ptr] = nullptr THEN Abort(S)
    ELSE
    LET p == S.hptr[handle_ptr]
        S1 == [S EXCEPT !.hunks = [S.hunks EXCEPT ![p].handler_ptr = nullptr],
                        !.alloc = SizeSub(S.alloc, S.hunks[p].size)]
        S2 == unlink_lru(S1, p)
    IN IF S2.aborted THEN S2
       ELSE [S2 EXCEPT !.hptr = [S2.hptr EXCEPT ![handle_ptr] = nullptr],
                       !.valid = ASAN_POISON_MEMORY_REGION(S.valid, p, S.hunks[p].size)]

\* Mutant of real_free: the bytes of the released hunk stay valid.
real_free_nopoison(S, handle_ptr) ==
    IF handle_ptr = nullptr THEN Abort(S)
    ELSE IF S.hptr[handle_ptr] = nullptr THEN Abort(S)
    ELSE
    LET p == S.hptr[handle_ptr]
        prev == S.hunks[p].prev_ptr
        next == S.hunks[p].next_ptr
        H1 == [S.hunks EXCEPT ![prev].next_ptr = next]
        H2 == [H1 EXCEPT ![next].prev_ptr = prev]
        H3 == [H2 EXCEPT ![p].next_ptr = nullptr, ![p].prev_ptr = nullptr]
        S1 == [S EXCEPT !.hunks = [H3 EXCEPT ![p].size = 0],
                        !.alloc = SizeSub(S.alloc, H3[p].size)]
        S2 == unlink_lru(S1, p)
    IN IF S2.aborted THEN S2
       ELSE [S2 EXCEPT !.hunks = [ o \in DOMAIN S2.hunks \ {p} |-> S2.hunks[o] ],
                       !.hptr = [S2.hptr EXCEPT ![handle_ptr] = nullptr]]

\* Mutant of real_free: an unbound handle is ignored.
real_free_ignoreunbound(S, handle_ptr) ==
    IF handle_ptr = nullptr THEN Abort(S)
    ELSE IF S.hptr[handle_ptr] = nullptr THEN S
    ELSE
    LET p == S.hptr[handle_ptr]
        prev == S.hunks[p].prev_ptr
        next == S.hunks[p].next_ptr
        H1 == [S.hunks EXCEPT ![prev].next_ptr = next]
        H2 == [H1 EXCEPT ![next].prev_ptr = prev]
        H3 == [H2 EXCEPT ![p].next_ptr = nullptr, ![p].prev_ptr = nullptr]
        S1 == [S EXCEPT !.hunks = [H3 EXCEPT ![p].size = 0],
                        !.alloc = SizeSub(S.alloc, H3[p].size)]
        S2 == unlink_lru(S1, p)
    IN IF S2.aborted THEN S2
       ELSE [S2 EXCEPT !.hunks = [ o \in DOMAIN S2.hunks \ {p} |-> S2.hunks[o] ],
                       !.hptr = [S2.hptr EXCEPT ![handle_ptr] = nullptr],
                       !.valid = ASAN_POISON_MEMORY_REGION(S.valid, p, S.hunks[p].size)]

\* LRUMemoryManager::real_free. It tests neither pointer. With a null
\* handle_ptr or a null hunk_ptr_ its first access to memory is a load from
\* the first bytes of the address space (hunk_ptr->size, hunk_ptr->prev_ptr),
\* and every store of the function takes its address or its value from such
\* a load: the load faults and the process ends before anything is written.
real_free(S, handle_ptr) ==
    IF handle_ptr = nullptr THEN Abort(S)
    ELSE IF S.hptr[handle_ptr] = nullptr THEN Abort(S)
    ELSE
    LET p == S.hptr[handle_ptr]
        prev == S.hunks[p].prev_ptr
        next == S.hunks[p].next_ptr
        H1 == [S.hunks EXCEPT ![prev].next_ptr = next]
        H2 == [H1 EXCEPT ![next].prev_ptr = prev]
        H3 == [H2 EXCEPT ![p].next_ptr = nullptr, ![p].prev_ptr = nullptr]
        S1 == [S EXCEPT !.hunks = [H3 EXCEPT ![p].size = 0],
                        !.alloc = SizeSub(S.alloc, H3[p].size)]
        S2 == unlink_lru(S1, p)
    IN IF S2.aborted THEN S2
       ELSE [S2 EXCEPT !.hunks = [ o \in DOMAIN S2.hunks \ {p} |-> S2.hunks[o] ],
                       !.hptr = [S2.hptr EXCEPT ![handle_ptr] = nullptr],
                       !.valid = ASAN_POISON_MEMORY_REGION(S.valid, p, S.hunks[p].size)]

\* Mutant of lru_victim: the most recently used hunk is released.
lru_victim_mru(S) == S.hunks[head].most_recent_ptr

\* real_alloc: the hunk to release when no free space was found.
lru_victim(S) == S.hunks[head].least_recent_ptr

\* Mutant of real_alloc_loop: the eviction takes the victim off both lists
\* and unbinds its handle but leaves the allocated byte count as it was.
RECURSIVE real_alloc_loop_evictnoacct(_, _, _, _)
real_alloc_loop_evictnoacct(S, handle_ptr, size, fuel) ==
    LET r == try_alloc(S, size)
    IN IF r.st.aborted THEN [ret |-> nullptr, st |-> r.st]
       ELSE IF r.hunk # nullptr
       THEN [ret |-> r.hunk + HeaderSize,
             st  |-> [r.st EXCEPT !.hunks = [r.st.hunks EXCEPT ![r.hunk].handler_ptr = handle_ptr],
                                  !.hptr = [r.st.hptr EXCEPT ![handle_ptr] = r.hunk]]]
       ELSE IF lru_victim(S) # head
       THEN LET v == S.hunks[lru_victim(S)].handler_ptr
                S1 == real_free_noacct(S, v)
                S2 == [S1 EXCEPT !.evicted = Append(S1.evicted, v)]
            IN IF S2.aborted \/ fuel = 0 THEN [ret |-> nullptr, st |-> Abort(S2)]
               ELSE real_alloc_loop_evictnoacct(S2, handle_ptr, size, fuel - 1)
       ELSE [ret |-> nullptr, st |-> S]

\* real_alloc, the while (true) loop: place, or release the least recently
\* used hunk and search again, or give up when nothing is left to release.
RECURSIVE real_alloc_loop(_, _, _, _)
real_alloc_loop(S, handle_ptr, size, fuel) ==
    LET r == try_alloc(S, size)
    IN IF r.st.aborted THEN [ret |-> nullptr, st |-> r.st]
       ELSE IF r.hunk # nullptr
       THEN [ret |-> r.hunk + HeaderSize,
             st  |-> [r.st EXCEPT !.hunks = [r.st.hunks EXCEPT ![r.hunk].handler_ptr = handle_ptr],
                                  !.hptr = [r.st.hptr EXCEPT ![handle_ptr] = r.hunk]]]
       ELSE IF lru_victim(S) # head
       THEN LET v == S.hunks[lru_victim(S)].handler_ptr
                S1 == real_free(S, v)
                S2 == [S1 EXCEPT !.evicted = Append(S1.evicted, v)]
            IN IF S2.aborted \/ fuel = 0 THEN [ret |-> nullptr, st |-> Abort(S2)]
               ELSE real_alloc_loop(S2, handle_ptr, size, fuel - 1)
       ELSE [ret |-> nullptr, st |-> S]

\* Mutant of real_alloc: the least recently used hunk is released before the
\* first search for free space.
real_alloc_evictfirst(S, handle_ptr, size) ==
    IF lru_victim(S) # head
    THEN LET v == S.hunks[lru_victim(S)].handler_ptr
             S1 == real_free(S, v)
             S2 == [S1 EXCEPT !.evicted = Append(S1.evicted, v)]
         IN real_alloc_loop(S2, handle_ptr, aligned_size(size), Cardinality(DOMAIN S.hunks))
    ELSE real_alloc_loop(S, handle_ptr, aligned_size(size), Cardinality(DOMAIN S.hunks))

\* Mutant of real_alloc: one placement attempt, no eviction.
real_alloc_noevict(S, handle_ptr, size) ==
    LET r == try_alloc(S, aligned_size(size))
    IN IF r.hunk # nullptr
       THEN [ret |-> r.hunk + HeaderSize,
             st  |-> [r.st EXCEPT !.hunks = [r.st.hunks EXCEPT ![r.hunk].handler_ptr = handle_ptr],
                                  !.hptr = [r.st.hptr EXCEPT ![handle_ptr] = r.hunk]]]
       ELSE [ret |-> nullptr, st |-> S]

\* LRUMemoryManager::real_alloc
real_alloc(S, handle_ptr, size) ==
    real_alloc_loop(S, handle_ptr, aligned_size(size), Cardinality(DOMAIN S.hunks))

\* Mutant of real_get_buffer: the hunk is not moved in the LRU list.
real_get_buffer_nomove(S, handle_ptr) ==
    IF S.hptr[handle_ptr] = nullptr THEN [ret |-> nullptr, st |-> S]
    ELSE [ret |-> S.hptr[handle_ptr] + HeaderSize, st |-> S]

\* Mutant of real_get_buffer: no null check, data_ptr is computed from the
\* null hunk pointer.
real_get_buffer_nocheck(S, handle_ptr) ==
    LET p == S.hptr[handle_ptr]
    IN IF p = nullptr THEN [ret |-> p + HeaderSize, st |-> S]
       ELSE [ret |-> p + HeaderSize, st |-> link_lru(unlink_lru(S, p), p)]

\* Mutant of real_get_buffer: a hunk that is already the most recently used
\* one is put at the least recent end.
real_get_buffer_toggle(S, handle_ptr) ==
    IF S.hptr[handle_ptr] = nullptr THEN [ret |-> nullptr, st |-> S]
    ELSE LET p == S.hptr[handle_ptr]
         IN IF S.hunks[head].most_recent_ptr = p
            THEN [ret |-> p + HeaderSize, st |-> link_lru_tail(unlink_lru(S, p), p)]
            ELSE [ret |-> p + HeaderSize, st |-> link_lru(unlink_lru(S, p), p)]

\* Mutant of real_get_buffer: the address of the hunk header is returned
\* instead of the address of the payload behind it.
real_get_buffer_hunkaddr(S, handle_ptr) ==
    IF S.hptr[handle_ptr] = nullptr THEN [ret |-> nullptr, st |-> S]
    ELSE LET p == S.hptr[handle_ptr]
         IN [ret |-> p, st |-> link_lru(unlink_lru(S, p), p)]

\* LRUMemoryManager::real_get_buffer
real_get_buffer(S, handle_ptr) ==
    IF S.hptr[handle_ptr] = nullptr THEN [ret |-> nullptr, st |-> S]
    ELSE LET p == S.hptr[handle_ptr]
         IN [ret |-> p + HeaderSize, st |-> link_lru(unlink_lru(S, p), p)]

\* Mutant of flush: only the first hunk is released.
flush_once(S, fuel) ==
    IF S.hunks[head].next_ptr = head THEN S
    ELSE real_free(S, S.hunks[S.hunks[head].next_ptr].handler_ptr)

\* LRUMemoryManager::flush
RECURSIVE flush(_, _)
flush(S, fuel) ==
    IF S.hunks[head].next_ptr = head THEN S
    ELSE LET S1 == real_free(S, S.hunks[S.hunks[head].next_ptr].handler_ptr)
         IN IF S1.aborted \/ fuel = 0 THEN Abort(S1) ELSE flush(S1, fuel - 1)

\* ---------------------------------------------------------- iteration

\* LRUMemoryManager::begin(is_lru_order)
begin(S, is_lru_order) ==
    IF is_lru_order THEN S.hunks[S.hunks[head].most_recent_ptr].handler_ptr
    ELSE S.hunks[S.hunks[head].next_ptr].handler_ptr

\* LRUMemoryManager::end
end(S) == S.hunks[head].handler_ptr

\* Mutant of Increment: in LRU order the iterator follows least_recent_ptr.
Increment_leastrecent(S, handle, is_lru_order) ==
    IF is_lru_order THEN S.hunks[S.hunks[S.hptr[handle]].least_recent_ptr].handler_ptr
    ELSE S.hunks[S.hunks[S.hptr[handle]].next_ptr].handler_ptr

\* Iterator::operator++ through LRUMemoryHandle::most_recent() and next().
Increment(S, handle, is_lru_order) ==
    IF is_lru_order THEN S.hunks[S.hunks[S.hptr[handle]].most_recent_ptr].handler_ptr
    ELSE S.hunks[S.hunks[S.hptr[handle]].next_ptr].handler_ptr

\* The handles a loop from begin(is_lru_order) to end() visits. A handle
\* whose hunk_ptr_ is null fails Expects in next()/most_recent(): the walk
\* ends there with the marker 0.
RECURSIVE Walk(_, _, _, _)
Walk(S, cur, is_lru_order, fuel) ==
    IF cur = end(S) THEN <<>>
    ELSE IF fuel = 0 \/ S.hptr[cur] = nullptr THEN <<cur, 0>>
    ELSE <<cur>> \o Walk(S, Increment(S, cur, is_lru_order), is_lru_order, fuel - 1)

Iterate(S, is_lru_order) ==
    Walk(S, begin(S, is_lru_order), is_lru_order, Cardinality(DOMAIN S.hunks))

\* begin() called with no argument: the declaration defaults the parameter
\* (iterator begin(bool lru = true)).
begin_default(S) == begin(S, TRUE)

\* for (auto& handle : manager): from begin() to end(), each increment in
\* the order the iterator got from begin().
RangeFor(S) == Walk(S, begin_default(S), TRUE, Cardinality(DOMAIN S.hunks))

\* --------------------------------------------------- handle members

\* LRUMemoryHandle::size(): Expects(hunk_ptr_ != nullptr), then the size of
\* the hunk less the header, in size_t.
LRUMemoryHandle_size(S, this) ==
    IF S.hptr[this] = nullptr THEN [ret |-> 0, st |-> Abort(S)]
    ELSE [ret |-> SizeSub(S.hunks[S.hptr[this]].size, HeaderSize), st |-> S]

\* Mutant of copy_construct: the defaulted copy, which copies hunk_ptr_.
copy_construct_default(S, other) == [ret |-> S.hptr[other], st |-> S]

\* LRUMemoryHandle(const LRUMemoryHandle& other): asserts that other is
\* unbound. ret is the hunk_ptr_ of the handle constructed, which the
\* default member initializer leaves null.
copy_construct(S, other) ==
    [ret |-> nullptr, st |-> IF S.hptr[other] # nullptr THEN Abort(S) ELSE S]

\* void operator=(const LRUMemoryHandle& other): asserts that other is
\* unbound; the hunk_ptr_ of *this is not assigned.
copy_assign(S, this, other) == IF S.hptr[other] # nullptr THEN Abort(S) ELSE S

\* LRUMemoryHandle(LRUMemoryHandle&& other)
move_construct(S, other) ==
    [ret |-> nullptr, st |-> IF S.hptr[other] # nullptr THEN Abort(S) ELSE S]

\* void operator=(LRUMemoryHandle&& other)
move_assign(S, this, other) == IF S.hptr[other] # nullptr THEN Abort(S) ELSE S

\* ~LRUMemoryHandle(): the struct declares no destructor, so the implicit
\* one runs; it touches neither the handle's hunk nor the manager.
destroy(S, this) == S

\* ------------------------------------------------------- public calls

\* alloc(handle_ptr, size): forwards to real_alloc.
alloc(S, handle_ptr, size) == real_alloc(S, handle_ptr, size)

\* free(handle_ptr): forwards to real_free.
free(S, handle_ptr) == real_free(S, handle_ptr)

\* get_buffer_and_refresh(handle_ptr): forwards to real_get_buffer.
get_buffer_and_refresh(S, handle_ptr) == real_get_buffer(S, handle_ptr)

\* get_allocated_memory_size()
get_allocated_memory_size(S) == S.alloc

Commit(S) ==
    /\ mem_total_size_' = S.total
    /\ mem_allocated_size_' = S.alloc
    /\ hunks' = S.hunks
    /\ hunk_ptr_' = S.hptr
    /\ ptr_wrap' = S.wrap
    /\ aborted' = S.aborted
    /\ unpoisoned' = S.valid

\* The handles of the live hunks by their last touch, most recent first,
\* after a call, given that order before it: a successful alloc and a
\* refresh of a bound handle touch the handle; a handle whose hunk was
\* freed, evicted or flushed leaves the order.
TouchAfter(touch, op, h, ret, evicted) ==
    LET gone == { evicted[i] : i \in 1 .. Len(evicted) }
        keep(xs) == SelectSeq(touch, LAMBDA y : y \notin xs)
    IN CASE op = "alloc" /\ ret # nullptr -> <<h>> \o keep(gone \cup {h})
         [] op = "alloc" /\ ret = nullptr -> keep(gone)
         [] op = "refresh" /\ ret # nullptr -> <<h>> \o keep({h})
         [] op = "free" -> keep({h})
         [] op = "flush" -> <<>>
         [] OTHER -> touch

\* What a caller sees of a call: its arguments, what it returned, the
\* handles it evicted, how many hunks were live when it was made, and the
\* handles of the live hunks by last touch after it.
Call(op, h, size, ret, evicted) ==
    [ op |-> op, h |-> h, size |-> size, ret |-> ret, evicted |-> evicted,
      live |-> Cardinality(DOMAIN hunks \ {head}),
      touch |-> IF op = "construct" THEN <<>>
                ELSE TouchAfter(last.touch, op, h, ret, evicted) ]

\* Request sizes a caller passes to alloc: small ones, one that fills the
\* empty pool exactly and one a byte larger, which can never be placed.
ReqSizes ==
    { 1, 17, 100,
      PoolSize - 2 * HeaderSize, PoolSize - 2 * HeaderSize + 1 }

\* Any size_t: the sizes above, zero, sizes larger than the pool and sizes
\* up to the largest word.
AnySizes ==
    ReqSizes \cup { 0, 2 * PoolSize, Word \div 2, Word - 4 * HeaderSize,
                    Word - HeaderSize - MEMORY_ALIGNMENT, Word - HeaderSize, Word - 1 }

Init ==
    LET S == Constructor(PoolSize)
    IN /\ mem_total_size_ = S.total
       /\ mem_allocated_size_ = S.alloc
       /\ hunks = S.hunks
       /\ hunk_ptr_ = S.hptr
       /\ ptr_wrap \in BOOLEAN
       /\ aborted = FALSE
       /\ unpoisoned = S.valid
       /\ last = Call("construct", nullptr, PoolSize, nullptr, <<>>)

Alloc(h, size) ==
    /\ ~aborted
    /\ LET r == alloc(State, h, size)
       IN /\ Commit(r.st)
          /\ last' = Call("alloc", h, size, r.ret, r.st.evicted)

Free(h) ==
    /\ ~aborted
    /\ Commit(free(State, h))
    /\ last' = Call("free", h, 0, nullptr, <<>>)

Refresh(h) ==
    /\ ~aborted
    /\ LET r == get_buffer_and_refresh(State, h)
       IN /\ Commit(r.st)
          /\ last' = Call("refresh", h, 0, r.ret, <<>>)

Flush ==
    /\ ~aborted
    /\ Commit(flush(State, Cardinality(DOMAIN hunks)))
    /\ last' = Call("flush", nullptr, 0, nullptr, <<>>)

\* A caller that keeps the documented preconditions: alloc on an unbound
\* handle with a positive size, free on a bound handle.
Next ==
    \/ \E h \in Handles, size \in ReqSizes : hunk_ptr_[h] = nullptr /\ Alloc(h, size)
    \/ \E h \in Handles : hunk_ptr_[h] # nullptr /\ Free(h)
    \/ \E h \in Handles : Refresh(h)
    \/ Flush

Spec == Init /\ [][Next]_vars

\* Every hunk has room for its header and ends inside the pool: the states
\* in which hunks do not overlap, so that a hunk is one record of the model.
HunksInPool ==
    \A o \in DOMAIN hunks :
        /\ hunks[o].size >= HeaderSize
        /\ o + hunks[o].size <= mem_total_size_

\* The same caller passing any size_t to alloc.
NextAnySize ==
    \/ \E h \in Handles, size \in AnySizes :
          HunksInPool /\ hunk_ptr_[h] = nullptr /\ Alloc(h, size)
    \/ \E h \in Handles : HunksInPool /\ hunk_ptr_[h] # nullptr /\ Free(h)
    \/ \E h \in Handles : HunksInPool /\ Refresh(h)
    \/ HunksInPool /\ Flush

SpecAnySize == Init /\ [][NextAnySize]_vars

\* Pool sizes a caller passes to the constructor: zero, sizes smaller than
\* the head hunk, exactly the head hunk, room for one small hunk, and the
\* default pool.
PoolSizes ==
    { 0, 1, HeaderSize - 1, HeaderSize, HeaderSize + 4 * MEMORY_ALIGNMENT, PoolSize }

\* LRUMemoryManager::LRUMemoryManager for any mem_pool_size. Expects fails
\* on zero before anything is built. A pool smaller than the head hunk is
\* accepted; the placement new of the head then writes past the malloc'ed
\* block, which the build either lets pass or stops (crash = TRUE).
InitAnyPool ==
    \E mem_pool_size \in PoolSizes, crash \in BOOLEAN :
        LET S == Constructor(mem_pool_size)
            dies == mem_pool_size = 0 \/ (crash /\ mem_pool_size < HeaderSize)
        IN /\ crash => mem_pool_size < HeaderSize
           /\ mem_total_size_ = S.total
           /\ mem_allocated_size_ = (IF dies THEN 0 ELSE S.alloc)
           /\ hunks = S.hunks
           /\ hunk_ptr_ = S.hptr
           /\ ptr_wrap \in BOOLEAN
           /\ aborted = dies
           /\ unpoisoned = (IF dies THEN {} ELSE S.valid)
           /\ last = Call("construct", nullptr, mem_pool_size, nullptr, <<>>)

\* The precondition-respecting caller on a pool of any size.
SpecAnyPool == InitAnyPool /\ [][Next]_vars

CopyConstruct(other) ==
    /\ ~aborted
    /\ LET r == copy_construct(State, other)
       IN /\ Commit(r.st)
          /\ last' = Call("copy_construct", other, 0, r.ret, <<>>)

CopyAssign(this, other) ==
    /\ ~aborted
    /\ Commit(copy_assign(State, this, other))
    /\ last' = Call("copy_assign", other, 0, nullptr, <<>>)

MoveConstruct(other) ==
    /\ ~aborted
    /\ LET r == move_construct(State, other)
       IN /\ Commit(r.st)
          /\ last' = Call("move_construct", other, 0, r.ret, <<>>)

MoveAssign(this, other) ==
    /\ ~aborted
    /\ Commit(move_assign(State, this, other))
    /\ last' = Call("move_assign", other, 0, nullptr, <<>>)

Destroy(h) ==
    /\ ~aborted
    /\ Commit(destroy(State, h))
    /\ last' = Call("destroy", h, 0, nullptr, <<>>)

\* Request sizes of the caller that copies, moves and destroys handles.
HandleReqSizes == { 1, 17 }

\* A caller that allocates on unbound handles, frees bound ones, and copies,
\* moves and destroys handles, bound or not.
NextHandle ==
    \/ \E h \in Handles, size \in HandleReqSizes : hunk_ptr_[h] = nullptr /\ Alloc(h, size)
    \/ \E h \in Handles : hunk_ptr_[h] # nullptr /\ Free(h)
    \/ \E other \in Handles : CopyConstruct(other)
    \/ \E this, other \in Handles : CopyAssign(this, other)
    \/ \E other \in Handles : MoveConstruct(other)
    \/ \E this, other \in Handles : MoveAssign(this, other)
    \/ \E h \in Handles : Destroy(h)

SpecHandle == Init /\ [][NextHandle]_vars

\* A caller that also calls free on handles that are not bound.
NextAnyFree ==
    \/ \E h \in Handles, size \in ReqSizes : hunk_ptr_[h] = nullptr /\ Alloc(h, size)
    \/ \E h \in Handles : Free(h)
    \/ \E h \in Handles : Refresh(h)
    \/ Flush

SpecAnyFree == Init /\ [][NextAnyFree]_vars

\* A caller that also calls alloc on handles that are already bound.
NextAnyAlloc ==
    \/ \E h \in Handles, size \in ReqSizes : Alloc(h, size)
    \/ \E h \in Handles : hunk_ptr_[h] # nullptr /\ Free(h)
    \/ \E h \in Handles : Refresh(h)
    \/ Flush

SpecAnyAlloc == Init /\ [][NextAnyAlloc]_vars

\* ------------------------------------------------------- observations

\* Handles in recency order, most recent first: a loop from begin(true).
LruOrder == Iterate(State, TRUE)

\* Handles in address order: a loop from begin(false).
AddrOrder == Iterate(State, FALSE)

\* Offsets of the live hunks (every constructed hunk but the head).
LiveHunks == DOMAIN hunks \ {head}

BoundHandles == { h \in Handles : hunk_ptr_[h] # nullptr }

Without(seq, xs) == SelectSeq(seq, LAMBDA y : y \notin xs)

Range(seq) == { seq[i] : i \in 1 .. Len(seq) }

\* size + header rounded up to the alignment, as an unbounded integer.
RoundUp(size) ==
    ((size + HeaderSize + ALIGNMENT_MASK) \div MEMORY_ALIGNMENT) * MEMORY_ALIGNMENT

\* The request can never be placed: it exceeds the pool beside the head.
NeverFits(size) == RoundUp(size) > mem_total_size_ - HeaderSize

\* The manager as the constructor leaves it, with every handle unbound.
Drained ==
    /\ hunks = Constructor(mem_total_size_).hunks
    /\ hunk_ptr_ = [ h \in Handles |-> nullptr ]
    /\ mem_allocated_size_ = HeaderSize
    /\ LruOrder = <<>>
    /\ AddrOrder = <<>>

\* ------------------------------------------------------------- claims

\* C1: whenever alloc evicts, the i-th victim is the i-th hunk from the
\* least-recent end of the recency order at call time; the victims' handles
\* become unbound, and every other handle that was bound stays bound to the
\* same hunk at the same address with the same size.
C1_EvictsLeastRecentlyUsed ==
    [][ last'.op = "alloc" =>
          LET ev == last'.evicted
              k  == Len(ev)
              n  == Len(LruOrder)
          IN /\ k <= n
             /\ \A i \in 1 .. k : ev[i] = LruOrder[n - i + 1]
             /\ \A g \in Range(ev) : hunk_ptr_'[g] = nullptr
             /\ \A g \in BoundHandles \ Range(ev) :
                   /\ hunk_ptr_'[g] = hunk_ptr_[g]
                   /\ hunks'[hunk_ptr_[g]].size = hunks[hunk_ptr_[g]].size
                   /\ hunks'[hunk_ptr_[g]].handler_ptr = g
             /\ BoundHandles' \ {last'.h} = BoundHandles \ Range(ev)
      ]_vars

\* C1 witness: an alloc that evicted and succeeded while another handle
\* stayed bound.
C1_Witness ==
    /\ last.op = "alloc"
    /\ Len(last.evicted) >= 1
    /\ last.ret # nullptr
    /\ BoundHandles \ {last.h} # {}

\* C2 as stated: an alloc that returns null leaves the live hunks, the other
\* handles, the allocated byte count and both orders as they were.
C2_NullAllocChangesNothing ==
    [][ (last'.op = "alloc" /\ last'.ret = nullptr) =>
          /\ hunks' = hunks
          /\ hunk_ptr_' = hunk_ptr_
          /\ mem_allocated_size_' = mem_allocated_size_
      ]_vars

\* C2 amended: an alloc that returns null leaves the passed handle unbound
\* and has evicted every hunk that was live, least recent first: no hunk is
\* live, every handle is unbound, the allocated byte count is the header
\* size of the head; the state is as before only if no hunk was live.
C2_NullAllocDrains ==
    [][ (last'.op = "alloc" /\ last'.ret = nullptr) =>
          /\ hunk_ptr_'[last'.h] = nullptr
          /\ Drained'
          /\ Len(last'.evicted) = Len(LruOrder)
          /\ \A i \in 1 .. Len(LruOrder) :
                last'.evicted[i] = LruOrder[Len(LruOrder) - i + 1]
          /\ mem_total_size_' = mem_total_size_
          /\ ~aborted'
      ]_vars

\* C2 witness: an alloc returned null after evicting two hunks.
C2_Witness ==
    /\ last.op = "alloc"
    /\ last.ret = nullptr
    /\ Len(last.evicted) = 2

C4_RefreshMovesToFront ==
    [][ (last'.op = "refresh" /\ hunk_ptr_[last'.h] # nullptr) =>
          /\ LruOrder' = <<last'.h>> \o Without(LruOrder, {last'.h})
          /\ AddrOrder' = AddrOrder
          /\ DOMAIN hunks' = DOMAIN hunks
          /\ \A o \in DOMAIN hunks :
                /\ hunks'[o].size = hunks[o].size
                /\ hunks'[o].handler_ptr = hunks[o].handler_ptr
                /\ hunks'[o].prev_ptr = hunks[o].prev_ptr
                /\ hunks'[o].next_ptr = hunks[o].next_ptr
          /\ mem_allocated_size_' = mem_allocated_size_
          /\ mem_total_size_' = mem_total_size_
          /\ hunk_ptr_' = hunk_ptr_
          /\ last'.ret = hunk_ptr_[last'.h] + HeaderSize
          /\ ~aborted'
      ]_vars

\* C4 witness: with three live hunks, the refreshed handle is first in
\* recency order and second in address order.
C4_Witness ==
    /\ last.op = "refresh"
    /\ last.ret # nullptr
    /\ Len(LruOrder) = 3
    /\ LruOrder[1] = last.h
    /\ AddrOrder[2] = last.h

\* C5: get_buffer_and_refresh on an unbound handle returns null and leaves
\* the whole manager state unchanged, without aborting.
C5_RefreshUnboundIsNoOp ==
    [][ (last'.op = "refresh" /\ hunk_ptr_[last'.h] = nullptr) =>
          /\ last'.ret = nullptr
          /\ UNCHANGED <<mem_total_size_, mem_allocated_size_, hunks, hunk_ptr_, aborted>>
      ]_vars

\* C5 witness: a refresh of an unbound handle returned null while other
\* handles held live hunks.
C5_Witness ==
    /\ last.op = "refresh"
    /\ last.ret = nullptr
    /\ hunk_ptr_[last.h] = nullptr
    /\ Cardinality(LiveHunks) >= 2

\* C6: free on a bound handle removes exactly that handle's hunk from
\* address order and from recency order, lowers the allocated byte count by
\* the hunk's total size and unbinds the handle; every other hunk keeps its
\* address, size, owner and its relative place in both orders.
C6_FreeRemovesExactlyOne ==
    [][ (last'.op = "free" /\ hunk_ptr_[last'.h] # nullptr) =>
          LET p == hunk_ptr_[last'.h]
          IN /\ DOMAIN hunks' = DOMAIN hunks \ {p}
             /\ AddrOrder' = Without(AddrOrder, {last'.h})
             /\ LruOrder' = Without(LruOrder, {last'.h})
             /\ Len(AddrOrder') = Len(AddrOrder) - 1
             /\ Len(LruOrder') = Len(LruOrder) - 1
             /\ mem_allocated_size_' = mem_allocated_size_ - hunks[p].size
             /\ hunk_ptr_' = [hunk_ptr_ EXCEPT ![last'.h] = nullptr]
             /\ \A o \in DOMAIN hunks \ {p} :
                   /\ hunks'[o].size = hunks[o].size
                   /\ hunks'[o].handler_ptr = hunks[o].handler_ptr
             /\ ~aborted'
      ]_vars

\* C6 witness: a free left two live hunks with free space between them.
C6_Witness ==
    /\ last.op = "free"
    /\ Len(AddrOrder) = 2
    /\ hunk_ptr_[AddrOrder[2]] >
          hunk_ptr_[AddrOrder[1]] + hunks[hunk_ptr_[AddrOrder[1]]].size

\* C7: flush ends with no live hunk: begin(false) == end() and
\* begin(true) == end(), every handle unbound, the allocated byte count
\* equal to the header size of the head; on an empty manager it changes
\* nothing.
C7_FlushDrains ==
    [][ last'.op = "flush" =>
          /\ ~aborted'
          /\ begin(State, FALSE)' = end(State)'
          /\ begin(State, TRUE)' = end(State)'
          /\ LiveHunks' = {}
          /\ \A h \in Handles : hunk_ptr_'[h] = nullptr
          /\ mem_allocated_size_' = HeaderSize
          /\ mem_total_size_' = mem_total_size_
          /\ (LiveHunks = {} =>
                UNCHANGED <<mem_total_size_, mem_allocated_size_, hunks, hunk_ptr_, aborted>>)
      ]_vars

\* C7 witness: a flush made with three live hunks left the manager empty.
C7_Witness ==
    /\ last.op = "flush"
    /\ last.live = 3
    /\ LiveHunks = {}
    /\ hunks[head].next_ptr = head
    /\ hunks[head].most_recent_ptr = head

\* C8 as stated: alloc with size 0 aborts; it creates no hunk and binds no
\* handle.
C8_ZeroSizeAllocAborts ==
    [][ (last'.op = "alloc" /\ last'.size = 0) =>
          /\ aborted'
          /\ hunks' = hunks
          /\ hunk_ptr_' = hunk_ptr_
      ]_vars

\* C9 as stated: on an empty arena, alloc of any size larger than the pool
\* returns null and leaves no live hunk.
C9_OversizeOnEmptyReturnsNull ==
    [][ (last'.op = "alloc" /\ LiveHunks = {} /\ last'.size > mem_total_size_) =>
          /\ last'.ret = nullptr
          /\ LiveHunks' = {}
      ]_vars

\* Hunk offsets along next_ptr from `p` up to the head; the walk stops at a
\* pointer that is no constructed hunk.
RECURSIVE RingFrom(_, _)
RingFrom(p, fuel) ==
    IF p = head \/ fuel = 0 \/ p \notin DOMAIN hunks THEN <<>>
    ELSE <<p>> \o RingFrom(hunks[p].next_ptr, fuel - 1)

AddrRing == RingFrom(hunks[head].next_ptr, Cardinality(DOMAIN hunks))

\* C10: the address ring walked from the head lists every live hunk once,
\* at strictly ascending addresses and without overlap: each hunk starts at
\* or after the end of its predecessor, the first at or after the end of the
\* head's header, and the last ends at or before the end of the pool.
C10_AddressRingSorted ==
    LET r == AddrRing
        n == Len(r)
    IN /\ Range(r) = LiveHunks
       /\ n = Cardinality(LiveHunks)
       /\ \A i \in 1 .. n :
             /\ r[i] >= (IF i = 1 THEN head + hunks[head].size
                         ELSE r[i - 1] + hunks[r[i - 1]].size)
             /\ (i > 1 => r[i] > r[i - 1])
             /\ r[i] + hunks[r[i]].size <= mem_total_size_
             /\ hunks[r[i]].prev_ptr = (IF i = 1 THEN head ELSE r[i - 1])
       /\ hunks[head].prev_ptr = (IF n = 0 THEN head ELSE r[n])

\* C10 witness: three live hunks, one placed into a gap below a hunk that
\* was allocated before it, with free space left between two hunks.
C10_Witness ==
    /\ Len(AddrRing) = 3
    /\ last.op = "alloc"
    /\ last.ret # nullptr
    /\ hunk_ptr_[last.h] = AddrRing[2]
    /\ AddrRing[3] > AddrRing[2] + hunks[AddrRing[2]].size

\* Hunk and handle point at each other: every live hunk's handler_ptr is a
\* handle whose hunk_ptr_ is that hunk, and every bound handle's hunk_ptr_
\* is a live hunk whose handler_ptr is that handle.
BackRefsConsistent ==
    /\ \A o \in LiveHunks :
          /\ hunks[o].handler_ptr \in Handles
          /\ hunk_ptr_[hunks[o].handler_ptr] = o
    /\ \A h \in BoundHandles :
          /\ hunk_ptr_[h] \in LiveHunks
          /\ hunks[hunk_ptr_[h]].handler_ptr = h
    /\ \A o1, o2 \in LiveHunks :
          hunks[o1].handler_ptr = hunks[o2].handler_ptr => o1 = o2

\* C11: in every state a precondition-respecting caller reaches, hunks and
\* handles point at each other, no two live hunks share an owner, and the
\* handle of a hunk that a call freed, evicted or flushed is null after it.
C11_BackReferencesConsistent ==
    /\ []BackRefsConsistent
    /\ [][ /\ (last'.op = "free" => hunk_ptr_'[last'.h] = nullptr)
           /\ (last'.op = "alloc" =>
                 \A g \in Range(last'.evicted) \ {last'.h} : hunk_ptr_'[g] = nullptr)
           /\ (last'.op = "flush" => \A g \in Handles : hunk_ptr_'[g] = nullptr)
           /\ \A g \in BoundHandles :
                 hunk_ptr_[g] \notin LiveHunks' => hunk_ptr_'[g] # hunk_ptr_[g]
         ]_vars

\* C11 witness: two handles are bound, and the third was unbound by the
\* eviction that made room for the last alloc.
C11_Witness ==
    /\ last.op = "alloc"
    /\ Len(last.evicted) = 1
    /\ Cardinality(BoundHandles) = 2
    /\ hunk_ptr_[last.evicted[1]] = nullptr

\* Sum of the size fields of the hunks at the offsets in `seq`.
RECURSIVE SumSizes(_)
SumSizes(seq) ==
    IF seq = <<>> THEN 0 ELSE hunks[Head(seq)].size + SumSizes(Tail(seq))

\* C12: in every reachable state get_allocated_memory_size() is the header
\* size of the head plus the sum of the sizes (header + aligned payload) of
\* the live hunks on the address ring.
C12_AllocatedSizeIsSum ==
    /\ get_allocated_memory_size(State) = HeaderSize + SumSizes(AddrRing)
    /\ \A o \in LiveHunks :
          /\ hunks[o].size >= HeaderSize
          /\ hunks[o].size % MEMORY_ALIGNMENT = 0

\* C12 witness: after a free, two hunks of different sizes are live.
C12_Witness ==
    /\ last.op = "free"
    /\ Len(AddrRing) = 2
    /\ hunks[AddrRing[1]].size # hunks[AddrRing[2]].size
    /\ get_allocated_memory_size(State) > HeaderSize

\* C13 as stated: for every pool size the constructor accepts (any size
\* above zero), right after construction and after any sequence of calls,
\* the allocated byte count does not exceed the pool size.
C13_AllocatedWithinCapacity ==
    ~aborted => get_allocated_memory_size(State) <= mem_total_size_

\* C14: in every reachable state a loop from begin(true) lists the handles
\* of the live hunks by last touch (successful alloc, or refresh of a bound
\* handle), most recent first; the head's least_recent_ptr is the hunk with
\* the oldest last touch and its most_recent_ptr the one with the newest.
\* After N allocs and nothing else this is the reverse allocation order.
C14_RecencyOrderIsLastTouch ==
    /\ LruOrder = last.touch
    /\ Range(last.touch) = BoundHandles
    /\ hunks[head].least_recent_ptr =
          (IF last.touch = <<>> THEN head ELSE hunk_ptr_[last.touch[Len(last.touch)]])
    /\ hunks[head].most_recent_ptr =
          (IF last.touch = <<>> THEN head ELSE hunk_ptr_[last.touch[1]])

\* C14 witness: three hunks are live and the last call refreshed the one
\* that was touched longest ago, so the order is no allocation order: the
\* refreshed handle is first in recency order and lowest in address order.
\* The hunk at the least recent end is the second one in address order.
C14_Witness ==
    /\ last.op = "refresh"
    /\ Len(LruOrder) = 3
    /\ LruOrder[1] = last.h
    /\ AddrOrder[1] = last.h
    /\ LruOrder[3] = AddrOrder[2]
    /\ hunks[head].least_recent_ptr = hunk_ptr_[AddrOrder[2]]

\* The address ring without the hunks of the handles in `ev`, from the head.
KeptRing(ev) ==
    <<head>> \o SelectSeq(AddrRing, LAMBDA o : hunks[o].handler_ptr \notin ev)

\* The free gap after the i-th hunk of ring R: from that hunk's end to the
\* next hunk of R, or to the end of the pool after the last one.
GapStart(R, i) == R[i] + hunks[R[i]].size

GapEnd(R, i) == IF i < Len(R) THEN R[i + 1] ELSE mem_total_size_

\* The low edge of the lowest gap of R that is at least `asize` long, or
\* nullptr when no gap is.
FirstFit(R, asize) ==
    LET fits == { i \in 1 .. Len(R) : GapEnd(R, i) - GapStart(R, i) >= asize }
    IN IF fits = {} THEN nullptr
       ELSE GapStart(R, CHOOSE i \in fits : \A j \in fits : i <= j)

\* C15: a successful alloc puts the new hunk at the low edge of the lowest
\* free gap that is at least aligned_size long (the gaps between address
\* neighbours from the head on, then the tail gap up to the pool end, as
\* they are once the evicted hunks are gone), an exact fit included.
C15_FirstFitPlacement ==
    [][ (last'.op = "alloc" /\ last'.ret # nullptr) =>
          LET R == KeptRing(Range(last'.evicted))
              at == hunk_ptr_'[last'.h]
          IN /\ at = FirstFit(R, RoundUp(last'.size))
             /\ at \in LiveHunks'
             /\ hunks'[at].size = RoundUp(last'.size)
             /\ last'.ret = at + HeaderSize
      ]_vars

\* C15 witness: an alloc without eviction went past a free gap that was too
\* small and filled a higher gap exactly.
C15_Witness ==
    /\ last.op = "alloc"
    /\ last.ret # nullptr
    /\ last.evicted = <<>>
    /\ Len(AddrRing) = 2
    /\ AddrRing[2] = hunk_ptr_[last.h]
    /\ AddrRing[1] > head + hunks[head].size
    /\ AddrRing[2] + hunks[AddrRing[2]].size = mem_total_size_

\* free(h) followed by alloc(h, size), applied to manager state S.
FreeThenAlloc(S, h, size) == alloc(free(S, h), h, size)

\* C16: after alloc(h, s) succeeded on an empty arena, free(h) followed by
\* alloc(h, s) binds h to a hunk at the same address and gives the manager
\* state the first alloc left: hunks, links, bindings and byte count.
C16_AllocFreeAllocRoundTrip ==
    (last.op = "alloc" /\ last.live = 0 /\ last.ret # nullptr) =>
        LET r == FreeThenAlloc(State, last.h, last.size)
        IN /\ free(State, last.h).hunks = Constructor(mem_total_size_).hunks
           /\ r.ret = last.ret
           /\ r.st.hptr[last.h] = hunk_ptr_[last.h]
           /\ r.st.hunks = hunks
           /\ r.st.hptr = hunk_ptr_
           /\ r.st.alloc = mem_allocated_size_
           /\ r.st.total = mem_total_size_
           /\ r.st.evicted = <<>>
           /\ ~r.st.aborted

\* C16 witness: an alloc of 100 bytes on an empty arena bound its handle to
\* the hunk right after the head, and free then alloc of the same size from
\* there returns the same payload address.
C16_Witness ==
    /\ last.op = "alloc"
    /\ last.live = 0
    /\ last.ret = head + HeaderSize + HeaderSize
    /\ last.size = 100
    /\ FreeThenAlloc(State, last.h, last.size).ret = last.ret

\* Position of offset o in the address ring (0 when it is not on it).
RingIndex(o) ==
    IF o \in Range(AddrRing) THEN CHOOSE i \in 1 .. Len(AddrRing) : AddrRing[i] = o ELSE 0

\* The hunks up to and including the i-th of the address ring are packed:
\* each starts where its predecessor ends, the first where the head ends.
PackedUpTo(i) ==
    \A j \in 1 .. i :
        AddrRing[j] = (IF j = 1 THEN head + hunks[head].size
                       ELSE AddrRing[j - 1] + hunks[AddrRing[j - 1]].size)

\* C17: when free releases a hunk M that has a successor and no free gap
\* below it, an alloc that follows with a size whose aligned size is at
\* most M's size puts the new hunk at M's former address without evicting
\* anything, so address order has the new hunk in M's place between the
\* same neighbours.
C17_FreedGapIsReused ==
    [][ \A h \in BoundHandles :
          ( /\ last'.op = "free"
            /\ last'.h = h
            /\ RingIndex(hunk_ptr_[h]) < Len(AddrRing)
            /\ PackedUpTo(RingIndex(hunk_ptr_[h])) ) =>
            \A M \in {hunk_ptr_[h]}, i \in {RingIndex(hunk_ptr_[h])}, F \in {free(State, h)} :
               /\ F.hunks = hunks'
               /\ F.hptr = hunk_ptr_'
               /\ F.alloc = mem_allocated_size_'
               /\ \A g \in Handles \ (BoundHandles \ {h}), size \in ReqSizes :
                     RoundUp(size) <= hunks[M].size =>
                        \A r \in {alloc(F, g, size)} :
                           /\ r.ret = M + HeaderSize
                           /\ r.st.hptr[g] = M
                           /\ r.st.evicted = <<>>
                           /\ Iterate(r.st, FALSE) = [AddrOrder EXCEPT ![i] = g]
                           /\ r.st.hunks[M].prev_ptr = hunks[M].prev_ptr
                           /\ r.st.hunks[M].next_ptr = hunks[M].next_ptr
      ]_vars

\* C17 witness: a free released the middle one of three packed hunks (the
\* first still starts at the end of the head, the gap is as long as the
\* first hunk and the last hunk follows it), and an alloc of one byte from
\* there lands in the gap.
C17_Witness ==
    /\ last.op = "free"
    /\ Len(AddrRing) = 2
    /\ AddrRing[1] = head + hunks[head].size
    /\ AddrRing[2] = AddrRing[1] + 2 * hunks[AddrRing[1]].size
    /\ alloc(State, last.h, 1).ret = AddrRing[1] + hunks[AddrRing[1]].size + HeaderSize

\* C18: when an alloc succeeds without evicting, free of the same handle
\* brings get_allocated_memory_size() back to its value before the alloc;
\* and when a second alloc on another handle also succeeds without
\* evicting, freeing both, in either order, brings it back as well.
C18_AllocatedSizeReturns ==
    [][ \A h \in Handles :
          ( /\ last'.op = "alloc"
            /\ last'.h = h
            /\ last'.ret # nullptr
            /\ last'.evicted = <<>> ) =>
            \A before \in {get_allocated_memory_size(State)},
               A \in {alloc(State, h, last'.size).st} :
               /\ A.hunks = hunks'
               /\ A.hptr = hunk_ptr_'
               /\ A.alloc = mem_allocated_size_'
               /\ get_allocated_memory_size(A) > before
               /\ get_allocated_memory_size(free(A, h)) = before
               /\ \A g \in Handles \ (BoundHandles \cup {h}), size \in ReqSizes :
                     \A r \in {alloc(A, g, size)} :
                        (r.ret # nullptr /\ r.st.evicted = <<>>) =>
                          /\ get_allocated_memory_size(free(free(r.st, h), g)) = before
                          /\ get_allocated_memory_size(free(free(r.st, g), h)) = before
      ]_vars

\* C18 witness: an alloc succeeded without evicting while another hunk was
\* live, and free of its handle from there gives the allocated byte count
\* of that other hunk and the head alone.
C18_Witness ==
    /\ last.op = "alloc"
    /\ last.ret # nullptr
    /\ last.evicted = <<>>
    /\ last.live = 1
    /\ get_allocated_memory_size(free(State, last.h)) =
          HeaderSize + hunks[hunk_ptr_[last.touch[2]]].size

CopyMoveOps == {"copy_construct", "copy_assign", "move_construct", "move_assign"}

\* C19: copy construction, copy assignment, move construction and move
\* assignment from a bound handle abort; from an unbound handle they
\* succeed, the handle constructed is unbound, and no handle's binding and
\* no hunk's owner changes.
C19_CopyMoveOfBoundHandleAborts ==
    [][ last'.op \in CopyMoveOps =>
          IF hunk_ptr_[last'.h] # nullptr
          THEN aborted'
          ELSE /\ ~aborted'
               /\ hunk_ptr_' = hunk_ptr_
               /\ hunks' = hunks
               /\ mem_allocated_size_' = mem_allocated_size_
               /\ (last'.op \in {"copy_construct", "move_construct"} =>
                     last'.ret = nullptr)
      ]_vars

\* C19 witness: the process died in a copy construction from a bound handle.
C19_Witness ==
    /\ aborted
    /\ last.op = "copy_construct"
    /\ hunk_ptr_[last.h] # nullptr
    /\ Cardinality(BoundHandles) = 2

\* C20 as stated: after the destructor of a bound handle ran, a loop from
\* begin(false) no longer yields that handle's hunk and yields the other
\* live hunks in their previous order.
C20_DestroyBoundHandleReleasesHunk ==
    [][ (last'.op = "destroy" /\ hunk_ptr_[last'.h] # nullptr) =>
          /\ last'.h \notin Range(AddrOrder')
          /\ AddrOrder' = Without(AddrOrder, {last'.h})
      ]_vars

\* C21 as stated: a range-for loop over the manager (begin() with no
\* argument) visits the live handles in address-ring order, and a loop from
\* begin(true) visits them in LRU order, most recent first.
C21_RangeForIsAddressOrder ==
    /\ RangeFor(State) = AddrOrder
    /\ Iterate(State, TRUE) = last.touch

\* C22: in every reachable state a loop from begin(false) and a loop from
\* begin(true) each reach end() after exactly N increments, N being the
\* number of successful allocs whose hunk was not freed, evicted or flushed
\* since; each yields every bound handle once and never the head, and with
\* N = 0 begin equals end in both orders.
C22_IterationVisitsEachLiveHunkOnce ==
    LET N == Len(last.touch)
    IN /\ Len(AddrOrder) = N
       /\ Len(LruOrder) = N
       /\ Range(AddrOrder) = BoundHandles
       /\ Range(LruOrder) = BoundHandles
       /\ Cardinality(BoundHandles) = N
       /\ Cardinality(LiveHunks) = N
       /\ end(State) = hunks[head].handler_ptr
       /\ end(State) \notin Range(AddrOrder) \cup Range(LruOrder)
       /\ (N = 0 => begin(State, FALSE) = end(State) /\ begin(State, TRUE) = end(State))
       /\ (N > 0 => begin(State, FALSE) # end(State) /\ begin(State, TRUE) # end(State))

\* C22 witness: two hunks are live after an alloc that evicted one, and the
\* two loops visit them in different orders.
C22_Witness ==
    /\ Len(last.touch) = 2
    /\ last.op = "alloc"
    /\ Len(last.evicted) = 1
    /\ Len(AddrOrder) = 2
    /\ AddrOrder # LruOrder

\* C23: every alloc made with an unbound handle returns, with a payload
\* pointer or null, after at most as many evictions as hunks were live when
\* it was called; no handle is evicted twice and the search loops never run
\* past the hunks there are.
C23_AllocTerminates ==
    [][ (last'.op = "alloc" /\ hunk_ptr_[last'.h] = nullptr) =>
          /\ ~aborted'
          /\ Len(last'.evicted) <= Cardinality(LiveHunks)
          /\ Cardinality(Range(last'.evicted)) = Len(last'.evicted)
          /\ Range(last'.evicted) \subseteq BoundHandles
          /\ \/ last'.ret = nullptr
             \/ last'.ret = hunk_ptr_'[last'.h] + HeaderSize /\ hunk_ptr_'[last'.h] \in LiveHunks'
          /\ (last'.ret = nullptr => Len(last'.evicted) = Cardinality(LiveHunks))
      ]_vars

\* C23 witness: an alloc returned a payload after evicting both hunks that
\* were live when it was called.
C23_Witness ==
    /\ last.op = "alloc"
    /\ last.ret # nullptr
    /\ last.live = 2
    /\ Len(last.evicted) = 2

C25_PayloadAddressIsStable ==
    [][ /\ (last'.op = "alloc" /\ last'.ret # nullptr) =>
              /\ hunk_ptr_'[last'.h] # nullptr
              /\ last'.ret = hunk_ptr_'[last'.h] + HeaderSize
        /\ \A h \in Handles :
              (hunk_ptr_[h] # nullptr /\ hunk_ptr_'[h] # nullptr) =>
                  /\ hunk_ptr_'[h] = hunk_ptr_[h]
                  /\ hunks'[hunk_ptr_[h]].handler_ptr = h
                  /\ hunks'[hunk_ptr_[h]].size = hunks[hunk_ptr_[h]].size
        /\ (last'.op = "refresh" /\ hunk_ptr_[last'.h] # nullptr) =>
              /\ last'.ret = hunk_ptr_[last'.h] + HeaderSize
              /\ hunk_ptr_'[last'.h] = hunk_ptr_[last'.h]
      ]_vars

\* get_buffer_and_refresh returned the payload address of a hunk that is
\* alone in the pool and not at its lowest address: the hunk below it was
\* released after the handle was bound, and the hunk did not move.
C25_Witness ==
    /\ last.op = "refresh"
    /\ last.ret # nullptr
    /\ last.ret = hunk_ptr_[last.h] + HeaderSize
    /\ Cardinality(LiveHunks) = 1
    /\ hunk_ptr_[last.h] > HeaderSize

\* The hunks met from hunk o to the head by following one link field; a walk
\* that leaves the constructed hunks or does not come back to the head
\* within fuel steps ends in nullptr.
RECURSIVE LinkWalk(_, _, _)
LinkWalk(field, o, fuel) ==
    IF o = head THEN <<>>
    ELSE IF fuel = 0 \/ o \notin DOMAIN hunks THEN <<nullptr>>
    ELSE <<o>> \o LinkWalk(field, hunks[o][field], fuel - 1)

\* The live hunks met on a full turn of one ring, starting behind the head.
Ring(field) == LinkWalk(field, hunks[head][field], Cardinality(DOMAIN hunks))

\* C26: in every reachable state each of the four link fields, followed from
\* the head, meets every live hunk exactly once and comes back to the head,
\* so the address ring and the recency ring hold the same elements; next_ptr
\* and prev_ptr are inverse of each other, and so are most_recent_ptr and
\* least_recent_ptr; the head is bound to no handle and no call returns it.
C26_RingsHoldSameHunks ==
    /\ \A field \in {"next_ptr", "prev_ptr", "most_recent_ptr", "least_recent_ptr"} :
          /\ Range(Ring(field)) = LiveHunks
          /\ Len(Ring(field)) = Cardinality(LiveHunks)
    /\ \A x \in DOMAIN hunks :
          /\ hunks[x].next_ptr \in DOMAIN hunks
          /\ hunks[x].most_recent_ptr \in DOMAIN hunks
          /\ hunks[hunks[x].next_ptr].prev_ptr = x
          /\ hunks[hunks[x].most_recent_ptr].least_recent_ptr = x
    /\ hunks[head].handler_ptr = nullptr
    /\ \A h \in Handles : hunk_ptr_[h] # head
    /\ last.ret \notin {head, head + HeaderSize}
    /\ last.op \in {"alloc", "refresh"} =>
          last.ret \in {nullptr} \cup { o + HeaderSize : o \in LiveHunks }

\* Three hunks are live and the recency ring orders them differently from
\* the address ring.
C26_Witness ==
    /\ Cardinality(LiveHunks) = 3
    /\ Ring("next_ptr") # Ring("least_recent_ptr")
    /\ Ring("next_ptr") # Ring("most_recent_ptr")
    /\ last.op = "refresh"

\* free called on each handle of `ev` in turn, applied to manager state S.
RECURSIVE FreeEach(_, _)
FreeEach(S, ev) ==
    IF ev = <<>> THEN S ELSE FreeEach(free(S, Head(ev)), Tail(ev))

\* C27: an alloc that evicted v1..vk and then succeeded leaves the manager
\* in the state that free(v1), ..., free(vk) and then the same alloc, made
\* from the state before the call, leave it in: the same hunks at the same
\* addresses with the same links in both rings, the same handle bindings,
\* the same allocated byte count and the same returned address; the alloc
\* made after the explicit frees evicts nothing.
C27_EvictionIsExplicitFree ==
    [][ (last'.op = "alloc" /\ last'.ret # nullptr /\ Len(last'.evicted) > 0) =>
          \A F \in { FreeEach(State, last'.evicted) } :
          \A r \in { alloc(F, last'.h, last'.size) } :
              /\ ~F.aborted
              /\ r.ret = last'.ret
              /\ r.st.hunks = hunks'
              /\ r.st.hptr = hunk_ptr_'
              /\ r.st.alloc = mem_allocated_size_'
              /\ r.st.total = mem_total_size_'
              /\ r.st.evicted = <<>>
              /\ r.st.aborted = aborted'
      ]_vars

\* An alloc evicted the two live hunks one after the other and placed its
\* own hunk right behind the head, where the first victim had been.
C27_Witness ==
    /\ last.op = "alloc"
    /\ last.ret # nullptr
    /\ Len(last.evicted) = 2
    /\ LiveHunks = {head + HeaderSize}
    /\ hunk_ptr_[last.h] = head + HeaderSize
    /\ mem_allocated_size_ = HeaderSize + aligned_size(last.size)

\* C28: eviction is lazy. An alloc made while some free gap is at least
\* aligned_size long evicts nothing; every eviction of an alloc follows a
\* search that found no such gap among the hunks left at that moment, so
\* the evictions stop at the first search that fits, and an alloc that
\* returns null found no gap after the last one. free changes the binding
\* of no handle but its own, and get_buffer_and_refresh of none at all.
C28_EvictionIsLazy ==
    [][ /\ last'.op = "alloc" =>
              \A asize \in { RoundUp(last'.size) }, ev \in { last'.evicted } :
                  /\ FirstFit(KeptRing({}), asize) # nullptr => ev = <<>>
                  /\ \A j \in 0 .. Len(ev) - 1 :
                        FirstFit(KeptRing(Range(SubSeq(ev, 1, j))), asize) = nullptr
                  /\ last'.ret # nullptr <=> FirstFit(KeptRing(Range(ev)), asize) # nullptr
                  /\ \A g \in Handles \ (Range(ev) \cup {last'.h}) :
                        hunk_ptr_'[g] = hunk_ptr_[g]
        /\ last'.op = "free" =>
              /\ \A g \in Handles \ {last'.h} : hunk_ptr_'[g] = hunk_ptr_[g]
              /\ LiveHunks' = LiveHunks \ {hunk_ptr_[last'.h]}
        /\ last'.op = "refresh" =>
              /\ hunk_ptr_' = hunk_ptr_
              /\ LiveHunks' = LiveHunks
      ]_vars

\* Of two live hunks an alloc evicted only the least recently used one: the
\* search after that eviction found room, and the other hunk stayed.
C28_Witness ==
    /\ last.op = "alloc"
    /\ last.ret # nullptr
    /\ last.live = 2
    /\ Len(last.evicted) = 1
    /\ Cardinality(LiveHunks) = 2
    /\ \E g \in BoundHandles \ {last.h} : LruOrder = <<last.h, g>>

\* The orders in which a caller can free the handles of the set F.
FreeOrders(F) ==
    { fs \in [1 .. Cardinality(F) -> F] : \A i, j \in DOMAIN fs : fs[i] = fs[j] => i = j }

\* Positions, in the address ring R, of the hunks of the handles in F.
FreedIdx(R, F) == { i \in 1 .. Len(R) : hunks[R[i]].handler_ptr \in F }

\* The positions I are neighbours on the ring.
AddressAdjacent(I) == \A i \in I : i - 1 \in I \/ \A j \in I : i <= j

\* The free span left by freeing the hunks at positions I of R: from the
\* end of the surviving hunk below them to the surviving hunk above them,
\* or to the end of the pool.
SpanLow(R, I) == GapStart(R, (CHOOSE i \in I : \A j \in I : i <= j) - 1)

SpanHigh(R, I) == GapEnd(R, CHOOSE i \in I : \A j \in I : i >= j)

\* An alloc of aligned size asize after free on the hunks at positions I
\* of the address ring R is a case of coalescing: the hunks are two or more
\* and address neighbours, the request is larger than each of them and no
\* larger than the span they leave, and no gap below that span fits.
CoalesceCase(R, I, asize) ==
    /\ Cardinality(I) >= 2
    /\ AddressAdjacent(I)
    /\ \A i \in I : asize > hunks[R[i]].size
    /\ \A lo \in { SpanLow(R, I) } :
          /\ asize <= SpanHigh(R, I) - lo
          /\ \A k \in 1 .. Len(R) :
                GapStart(R, k) < lo => GapEnd(R, k) - GapStart(R, k) < asize

\* C29: freed ranges coalesce. From any reachable state, after free on two
\* or more handles whose hunks are address neighbours, in any order, an
\* alloc whose aligned_size is larger than each freed hunk and no larger
\* than the span between the surviving neighbours, no lower gap fitting,
\* evicts nothing and puts its hunk at the low edge of that span. (Every
\* order of the frees leaves the same manager state, from which the alloc
\* is made.)
C29_FreedRangesCoalesce ==
    ~aborted =>
    \A R \in { KeptRing({}) } :
    \A F \in { X \in SUBSET BoundHandles : Cardinality(X) >= 2 } :
    \A I \in { FreedIdx(R, F) } :
    \A size \in { x \in ReqSizes : CoalesceCase(R, I, RoundUp(x)) } :
    \A lo \in { SpanLow(R, I) } :
    \A S \in { FreeEach(State, CHOOSE fs \in FreeOrders(F) : TRUE) } :
        /\ \A fs \in FreeOrders(F) : FreeEach(State, fs) = S
        /\ \A g \in (Handles \ BoundHandles) \cup F :
           \A r \in { alloc(S, g, size) } :
              /\ ~r.st.aborted
              /\ r.st.evicted = <<>>
              /\ r.ret = lo + HeaderSize
              /\ r.st.hptr[g] = lo
              /\ r.st.hunks[lo].size = RoundUp(size)
              /\ \A h \in BoundHandles \ F : r.st.hptr[h] = hunk_ptr_[h]

\* Three hunks of 64 bytes fill the pool but for its last 16 bytes. With
\* the upper two freed, upper one first, a request of 17 bytes (80 with the
\* header) is larger than each of them and is placed where the lower of
\* the two was, right behind the surviving hunk.
C29_Witness ==
    /\ Len(AddrOrder) = 3
    /\ \A o \in LiveHunks : hunks[o].size = 64
    /\ CoalesceCase(KeptRing({}), {3, 4}, RoundUp(17))
    /\ FreedIdx(KeptRing({}), {AddrOrder[2], AddrOrder[3]}) = {3, 4}
    /\ SpanLow(KeptRing({}), {3, 4}) = hunk_ptr_[AddrOrder[2]]
    /\ alloc(FreeEach(State, <<AddrOrder[3], AddrOrder[2]>>), AddrOrder[3], 17).ret
          = hunk_ptr_[AddrOrder[2]] + HeaderSize

\* Sum of the sizes of the hunks bound to the handles of `ev`.
RECURSIVE EvictedSizes(_)
EvictedSizes(ev) ==
    IF ev = <<>> THEN 0 ELSE hunks[hunk_ptr_[Head(ev)]].size + EvictedSizes(Tail(ev))

\* C30: after a successful alloc(h, s) the new hunk lies in the gap it was
\* given and is linked, in both directions, between the two hunks that
\* bounded that gap (the head standing for the end of the pool); it is at
\* the most recent end of the recency ring; h and the hunk point at each
\* other; the allocated byte count is the one before the call plus
\* aligned_size less the sizes of the evicted hunks; the returned pointer is
\* the hunk address plus the header size; and behind the new hunk the
\* recency ring lists the surviving hunks in the order they had before.
C30_SuccessfulAllocPostcondition ==
    [][ (last'.op = "alloc" /\ last'.ret # nullptr) =>
          \A R \in { KeptRing(Range(last'.evicted)) }, at \in { hunk_ptr_'[last'.h] } :
          \E i \in 1 .. Len(R) :
          \A below \in { R[i] }, above \in { IF i < Len(R) THEN R[i + 1] ELSE head } :
              /\ GapStart(R, i) <= at
              /\ at + RoundUp(last'.size) <= GapEnd(R, i)
              /\ hunks'[at].prev_ptr = below
              /\ hunks'[at].next_ptr = above
              /\ hunks'[below].next_ptr = at
              /\ hunks'[above].prev_ptr = at
              /\ hunks'[head].most_recent_ptr = at
              /\ hunks'[at].least_recent_ptr = head
              /\ hunks'[at].handler_ptr = last'.h
              /\ hunks'[at].size = RoundUp(last'.size)
              /\ last'.ret = at + HeaderSize
              /\ mem_allocated_size_' =
                    mem_allocated_size_ + RoundUp(last'.size) - EvictedSizes(last'.evicted)
              /\ Ring("most_recent_ptr")' =
                    <<at>> \o SelectSeq(Ring("most_recent_ptr"),
                                        LAMBDA o : hunks[o].handler_ptr \notin Range(last'.evicted))
              /\ LiveHunks' = { o \in LiveHunks : hunks[o].handler_ptr \notin Range(last'.evicted) }
                                \cup {at}
      ]_vars

\* An alloc put its hunk in the gap between two live hunks, where a freed
\* hunk had been: three hunks are live, the new one is the middle one in
\* address order and the first in recency order, and the two older hunks
\* follow it in the recency order they had.
C30_Witness ==
    /\ last.op = "alloc"
    /\ last.ret # nullptr
    /\ last.evicted = <<>>
    /\ last.live = 2
    /\ Len(AddrOrder) = 3
    /\ AddrOrder[2] = last.h
    /\ LruOrder[1] = last.h
    /\ last.ret = hunk_ptr_[last.h] + HeaderSize
    /\ hunks[hunk_ptr_[last.h]].prev_ptr = hunk_ptr_[AddrOrder[1]]
    /\ hunks[hunk_ptr_[last.h]].next_ptr = hunk_ptr_[AddrOrder[3]]

\* C31 as stated: every hunk's size is a multiple of 16 and at least the
\* header size, and every hunk starts a multiple of 16 bytes from the pool
\* base; the hunk a successful alloc bound has the size
\* round_up(requested size + header size, 16), so that size() of its handle
\* is at least the requested size and less than the requested size + 16.
C31_HunkSizesAreRoundedRequests ==
    /\ \A o \in DOMAIN hunks :
          /\ hunks[o].size % MEMORY_ALIGNMENT = 0
          /\ hunks[o].size >= HeaderSize
          /\ o % MEMORY_ALIGNMENT = 0
    /\ (last.op = "alloc" /\ last.ret # nullptr) =>
          /\ hunk_ptr_[last.h] # nullptr
          /\ hunks[hunk_ptr_[last.h]].size = RoundUp(last.size)
          /\ LRUMemoryHandle_size(State, last.h).ret >= last.size
          /\ LRUMemoryHandle_size(State, last.h).ret < last.size + MEMORY_ALIGNMENT

\* C32 as stated: an alloc with an unbound handle and a size above zero
\* returns a pointer exactly when round_up(size + header size, 16) is at
\* most the pool size less the header of the head: a request that fits the
\* empty pool succeeds from any state, and null is returned only for a
\* request that can never fit.
C32_AllocSucceedsIffFitsEmptyPool ==
    (last.op = "alloc" /\ last.size > 0 /\ ~aborted) =>
        (last.ret # nullptr <=> RoundUp(last.size) <= mem_total_size_ - HeaderSize)

\* C35: get_buffer_and_refresh is idempotent. In every reachable state, for
\* every bound handle, a second call right after the first returns the same
\* pointer and leaves the state the first call left; a call on the handle of
\* the most recently used hunk leaves the whole state as it is, as does a
\* call repeating the one just made.
C35_RefreshIsIdempotent ==
    /\ \A h \in BoundHandles :
       \A r1 \in { get_buffer_and_refresh(State, h) } :
       \A r2 \in { get_buffer_and_refresh(r1.st, h) } :
          /\ r1.ret # nullptr
          /\ r2.ret = r1.ret
          /\ r2.st = r1.st
          /\ hunks[head].most_recent_ptr = hunk_ptr_[h] => r1.st = State
    /\ (last.op = "refresh" /\ last.ret # nullptr) =>
          \A r \in { get_buffer_and_refresh(State, last.h) } :
              r.ret = last.ret /\ r.st = State

\* The last call refreshed the handle that was least recently used of
\* three, and calling it again returns the same pointer and changes nothing.
C35_Witness ==
    /\ last.op = "refresh"
    /\ last.ret # nullptr
    /\ Len(LruOrder) = 3
    /\ LruOrder[1] = last.h
    /\ AddrOrder[1] = last.h
    /\ get_buffer_and_refresh(State, last.h).st = State

\* C36 as stated: construction with pool size 0 aborts, and construction
\* with any pool size above 0 completes and leaves no live hunk: every link
\* of the head points at the head, begin(false) and begin(true) are end(),
\* and the allocated byte count is the header size.
C36_ConstructedEmpty ==
    last.op = "construct" =>
        IF last.size = 0 THEN aborted
        ELSE /\ ~aborted
             /\ LiveHunks = {}
             /\ hunks[head].next_ptr = head
             /\ hunks[head].prev_ptr = head
             /\ hunks[head].most_recent_ptr = head
             /\ hunks[head].least_recent_ptr = head
             /\ begin(State, FALSE) = end(State)
             /\ begin(State, TRUE) = end(State)
             /\ get_allocated_memory_size(State) = HeaderSize
             /\ \A h \in Handles : hunk_ptr_[h] = nullptr

\* C34 as stated: also when alloc is called with a handle that is already
\* bound, after any sequence of alloc, free, get_buffer_and_refresh and
\* flush every live hunk's owner handle points back at that hunk and every
\* bound handle's hunk is live and owned by it, no call ends the process,
\* and a flush leaves no hunk live.
C34_BackRefsSurviveAllocOnBoundHandle ==
    /\ ~aborted
    /\ BackRefsConsistent
    /\ last.op = "flush" => LiveHunks = {}

\* Byte b of the pool is marked valid.
IsValid(b) == \E r \in unpoisoned : r[1] <= b /\ b < r[2]

\* Byte b of the pool belongs to the head or to a live hunk.
InHunk(b) == \E o \in DOMAIN hunks : o <= b /\ b < o + hunks[o].size

\* C33: after construction and after any sequence of alloc, free,
\* get_buffer_and_refresh and flush, the bytes of the pool marked valid for
\* AddressSanitizer are those of the head and of the live hunks, header and
\* payload, and no others: the bytes of freed, evicted and flushed hunks and
\* the bytes never allocated are marked invalid.
C33_ValidBytesAreLiveHunks ==
    \A b \in 0 .. mem_total_size_ - 1 : IsValid(b) <=> InHunk(b)

\* After an alloc that evicted the lower of two hunks and put a smaller one
\* in its place, the bytes between the new hunk and the surviving one are
\* invalid, and those of both hunks are valid.
C33_Witness ==
    /\ last.op = "alloc"
    /\ Len(last.evicted) = 1
    /\ Len(AddrRing) = 2
    /\ AddrRing[1] = hunk_ptr_[last.h]
    /\ AddrRing[1] + hunks[AddrRing[1]].size < AddrRing[2]
    /\ ~IsValid(AddrRing[1] + hunks[AddrRing[1]].size)
    /\ ~IsValid(AddrRing[2] - 1)
    /\ IsValid(last.ret)
    /\ IsValid(AddrRing[2])

====
